---- MODULE Spec2Model ----
(***************************************************************************)
(* Playback queue of reproductor-app: the doubly linked list               *)
(* (DoublyLinkedList / Node) and the usePlaylist controller built on it.   *)
(*                                                                         *)
(* Nodes are heap objects with identity; the heap is the function `nodes'. *)
(* A DoublyLinkedList object is the record [head, tail, size].  Handlers   *)
(* are operators over the values their closure captured (the list object,  *)
(* currentNode, isShuffle, repeatMode); an action is one handler run to    *)
(* completion followed by the re-render that publishes the new state.      *)
(***************************************************************************)
EXTENDS Integers, Sequences, FiniteSets, TLC

\* ---- bounds of the model ----
MaxNodes == 3      \* node objects that may be alive at the same time
NumSongs == 3      \* distinct song ids of the library
MaxLoad == 2       \* longest array handed to loadQueue

NULL == 0          \* JavaScript null (Node | null)
NoSong == NULL         \* value slot of a node object that does not exist
Nodes == 1..MaxNodes
Songs == 1..NumSongs
RepeatModes == {"none", "all", "one"}

VARIABLES
  nodes,        \* heap: node identity -> [value, next, prev]
  playQueue,    \* the DoublyLinkedList object held in React state
  currentNode,  \* Node | null
  isShuffle,    \* boolean
  repeatMode,   \* 'none' | 'all' | 'one'
  last,         \* history: the observed command, its arguments and pre-state
  call          \* the getRandomNode call in progress, when followed pass by pass

vars == <<nodes, playQueue, currentNode, isShuffle, repeatMode, last, call>>

\* ---------------------------------------------------------------------
\* Node and DoublyLinkedList
\* ---------------------------------------------------------------------

\* A slot of the heap that holds no node object.
FreeNode == [value |-> NoSong, next |-> NULL, prev |-> NULL]

\* new Node(value): value set, both links null.
NewNode(song) == [value |-> song, next |-> NULL, prev |-> NULL]

\* new DoublyLinkedList()
NewList == [head |-> NULL, tail |-> NULL, size |-> 0]

isEmpty(q) == q.size = 0

\* Identity of the object a `new Node' yields: a slot no live object uses.
FreeSlots(h) == {n \in Nodes : h[n].value = NoSong}
Fresh(h) == CHOOSE n \in FreeSlots(h) : \A m \in FreeSlots(h) : n <= m

\* addLast(value) with the new node object placed at slot n.
addLast(h, q, song, n) ==
  LET h1 == [h EXCEPT ![n] = NewNode(song)]
  IN IF isEmpty(q)
       THEN [nodes |-> h1,
             list |-> [q EXCEPT !.head = n, !.tail = n, !.size = @ + 1],
             node |-> n]
       ELSE [nodes |-> [h1 EXCEPT ![q.tail].next = n, ![n].prev = q.tail],
             list |-> [q EXCEPT !.tail = n, !.size = @ + 1],
             node |-> n]

\* Faulty removeNode: the tail is not moved when the last node is removed.
\* C2 tells it from removeNode.
removeNode_staleTail(h, q, n) ==
  IF n = NULL THEN [nodes |-> h, list |-> q]
  ELSE
    LET p  == h[n].prev
        h1 == IF p # NULL THEN [h EXCEPT ![p].next = h[n].next] ELSE h
        q1 == IF p # NULL THEN q ELSE [q EXCEPT !.head = h[n].next]
        x  == h1[n].next
        h2 == IF x # NULL THEN [h1 EXCEPT ![x].prev = h1[n].prev] ELSE h1
        q3 == [q1 EXCEPT !.size = @ - 1]
        h3 == [h2 EXCEPT ![n].next = NULL, ![n].prev = NULL]
    IN [nodes |-> h3, list |-> q3]

\* removeNode(nodeToRemove)
removeNode(h, q, n) ==
  IF n = NULL THEN [nodes |-> h, list |-> q]
  ELSE
    LET p  == h[n].prev
        h1 == IF p # NULL THEN [h EXCEPT ![p].next = h[n].next] ELSE h
        q1 == IF p # NULL THEN q ELSE [q EXCEPT !.head = h[n].next]
        x  == h1[n].next
        h2 == IF x # NULL THEN [h1 EXCEPT ![x].prev = h1[n].prev] ELSE h1
        q2 == IF x # NULL THEN q1 ELSE [q1 EXCEPT !.tail = h1[n].prev]
        q3 == [q2 EXCEPT !.size = @ - 1]
        h3 == [h2 EXCEPT ![n].next = NULL, ![n].prev = NULL]
    IN [nodes |-> h3, list |-> q3]

\* Faulty reorder: the head is not moved when the node is dropped on the
\* head.  C12 tells it from reorder.
reorder_keepsHead(h, q, d, t) ==
  IF d = t THEN [nodes |-> h, list |-> q, threw |-> FALSE]
  ELSE
    LET r  == removeNode(h, q, d)
        h1 == r.nodes
        q1 == r.list
    IN IF t # NULL
         THEN LET h2 == [h1 EXCEPT ![d].prev = h1[t].prev, ![d].next = t]
                  tp == h2[t].prev
                  h3 == IF tp # NULL THEN [h2 EXCEPT ![tp].next = d] ELSE h2
                  h4 == [h3 EXCEPT ![t].prev = d]
              IN [nodes |-> h4, list |-> [q1 EXCEPT !.size = @ + 1],
                  threw |-> FALSE]
         ELSE IF q1.tail = NULL
           THEN [nodes |-> h1, list |-> q1, threw |-> TRUE]
           ELSE LET h2 == [h1 EXCEPT ![q1.tail].next = d]
                    h3 == [h2 EXCEPT ![d].prev = q1.tail]
                    h4 == [h3 EXCEPT ![d].next = NULL]
                IN [nodes |-> h4,
                    list |-> [q1 EXCEPT !.tail = d, !.size = @ + 1],
                    threw |-> FALSE]

\* reorder(draggedNode, targetNode).  threw = TRUE: `this.tail!.next' hit a
\* null tail, the TypeError leaves the list as removeNode left it.
reorder(h, q, d, t) ==
  IF d = t THEN [nodes |-> h, list |-> q, threw |-> FALSE]
  ELSE
    LET r  == removeNode(h, q, d)
        h1 == r.nodes
        q1 == r.list
    IN IF t # NULL
         THEN LET h2 == [h1 EXCEPT ![d].prev = h1[t].prev, ![d].next = t]
                  tp == h2[t].prev
                  h3 == IF tp # NULL THEN [h2 EXCEPT ![tp].next = d] ELSE h2
                  q2 == IF tp # NULL THEN q1 ELSE [q1 EXCEPT !.head = d]
                  h4 == [h3 EXCEPT ![t].prev = d]
              IN [nodes |-> h4, list |-> [q2 EXCEPT !.size = @ + 1],
                  threw |-> FALSE]
         ELSE IF q1.tail = NULL
           THEN [nodes |-> h1, list |-> q1, threw |-> TRUE]
           ELSE LET h2 == [h1 EXCEPT ![q1.tail].next = d]
                    h3 == [h2 EXCEPT ![d].prev = q1.tail]
                    h4 == [h3 EXCEPT ![d].next = NULL]
                IN [nodes |-> h4,
                    list |-> [q1 EXCEPT !.tail = d, !.size = @ + 1],
                    threw |-> FALSE]

\* The loop of findNodeBySongId, started at node n.  The walk is cut after
\* MaxNodes steps: a chain without a cycle is never longer (see Acyclic).
\* Both sides of the comparison are String(id): a member of Songs stands
\* for the string form of a song id.
RECURSIVE findFrom(_, _, _, _)
findFrom(h, n, songId, fuel) ==
  IF n = NULL \/ fuel = 0 THEN NULL
  ELSE IF h[n].value = songId THEN n
  ELSE findFrom(h, h[n].next, songId, fuel - 1)

findNodeBySongId(h, q, songId) == findFrom(h, q.head, songId, MaxNodes)

\* The node objects visited walking `next' from n, in order.
RECURSIVE WalkFrom(_, _, _)
WalkFrom(h, n, fuel) ==
  IF n = NULL \/ fuel = 0 THEN <<>>
  ELSE <<n>> \o WalkFrom(h, h[n].next, fuel - 1)

Chain(h, q) == WalkFrom(h, q.head, MaxNodes)

\* toArray(): the songs in head-to-tail order.
toArray(h, q) == [i \in 1..Len(Chain(h, q)) |-> h[Chain(h, q)[i]].value]

\* The inner for-loop of getRandomNode: randomIndex null-safe steps from head.
RECURSIVE NodeAt(_, _, _)
NodeAt(h, n, i) ==
  IF i = 0 THEN n
  ELSE NodeAt(h, IF n = NULL THEN NULL ELSE h[n].next, i - 1)

\* Faulty getRandomNode: the do-while test is missing, the excluded node can
\* be returned.  C10 tells it from getRandomNode.
getRandomNode_noExclude(h, q, excludeNode) ==
  IF isEmpty(q) \/ (q.size = 1 /\ q.head = excludeNode)
    THEN {NULL}
    ELSE {NodeAt(h, q.head, i) : i \in 0..(q.size - 1)}

\* getRandomNode(excludeNode): the set of values it can return, one per
\* value of Math.random() that ends the do-while loop.
getRandomNode(h, q, excludeNode) ==
  IF isEmpty(q) \/ (q.size = 1 /\ q.head = excludeNode)
    THEN {NULL}
    ELSE {NodeAt(h, q.head, i) : i \in 0..(q.size - 1)} \ {excludeNode}

\* getRandomNode followed pass by pass.  pc: "idle" no call, "call" entered,
\* "loop" in the do-while, "done" returned randomNode.  tick is the number of
\* passes made, modulo 2.
NoCall ==
  [pc |-> "idle", excludeNode |-> NULL, randomNode |-> NULL, tick |-> 0]

\* The test of line 168: the call returns null without entering the loop.
returnsNull(q, excludeNode) ==
  isEmpty(q) \/ (q.size = 1 /\ q.head = excludeNode)

\* The values Math.floor(Math.random() * this.size) can take.
RandomIndexes(q) == 0..(q.size - 1)

\* Faulty loop test: the loop is left after one pass.  C11 tells it from
\* repeats.
repeats_never(randomNode, excludeNode) == FALSE

\* while (randomNode === excludeNode)
repeats(randomNode, excludeNode) == randomNode = excludeNode

\* ---------------------------------------------------------------------
\* usePlaylist: the handlers.  Each is given the values its closure holds
\* (h the heap, q the list object, cur, sh, rm) and yields the set of
\* outcomes it can end in; an allocating handler has no outcome when the
\* heap bound leaves no slot.  An outcome tells
\*   nodes                    the heap the handler left,
\*   obj                      the list object of the closure, as mutated,
\*   setQueue, playQueue      whether setPlayQueue was called and the list
\*                            the state holds after the handler,
\*   setCurrent, currentNode  whether setCurrentNode was called (playNode,
\*                            clearCurrentNode) and the cursor afterwards,
\*   threw                    whether the handler ended in a TypeError.
\* ---------------------------------------------------------------------

Outcome(h, q, c) ==
  [nodes |-> h, playQueue |-> q, currentNode |-> c, threw |-> FALSE]

\* The handler returned without calling a setter.
Quiet(h, q, c) ==
  Outcome(h, q, c) @@ [obj |-> q, setQueue |-> FALSE, setCurrent |-> FALSE]

\* The handler called playNode(c) / clearCurrentNode() and nothing else.
Play(h, q, c) ==
  Outcome(h, q, c) @@ [obj |-> q, setQueue |-> FALSE, setCurrent |-> TRUE]

\* The handler left its list object as obj, called setPlayQueue(q) and,
\* if setCurrent, playNode(c).
Publish(h, obj, q, setCurrent, c) ==
  Outcome(h, q, c) @@
    [obj |-> obj, setQueue |-> TRUE, setCurrent |-> setCurrent]

\* Faulty nextSong: wraps to the head at the end of the queue whatever
\* repeatMode is.  C8 tells it from nextSong.
nextSong_alwaysWraps(h, q, cur, sh, rm) ==
  IF cur = NULL THEN {Quiet(h, q, cur)}
  ELSE IF sh THEN {Play(h, q, r) : r \in getRandomNode(h, q, cur)}
  ELSE IF h[cur].next # NULL THEN {Play(h, q, h[cur].next)}
  ELSE {Play(h, q, q.head)}

\* Faulty nextSong: with shuffle on, a null draw falls back on the head
\* under repeat 'all'.  C24 tells it from nextSong.
nextSong_shuffleRepeats(h, q, cur, sh, rm) ==
  IF cur = NULL THEN {Quiet(h, q, cur)}
  ELSE IF sh
    THEN {Play(h, q, IF r = NULL /\ rm = "all" THEN q.head ELSE r)
            : r \in getRandomNode(h, q, cur)}
  ELSE IF h[cur].next # NULL THEN {Play(h, q, h[cur].next)}
  ELSE IF rm = "all" THEN {Play(h, q, q.head)}
  ELSE {Play(h, q, NULL)}

\* Faulty nextSong: without a cursor it starts at the head.  C27 tells it
\* from nextSong.
nextSong_fromNull(h, q, cur, sh, rm) ==
  IF cur = NULL THEN {Play(h, q, q.head)}
  ELSE IF sh THEN {Play(h, q, r) : r \in getRandomNode(h, q, cur)}
  ELSE IF h[cur].next # NULL THEN {Play(h, q, h[cur].next)}
  ELSE IF rm = "all" THEN {Play(h, q, q.head)}
  ELSE {Play(h, q, NULL)}

\* nextSong()
nextSong(h, q, cur, sh, rm) ==
  IF cur = NULL THEN {Quiet(h, q, cur)}
  ELSE IF sh THEN {Play(h, q, r) : r \in getRandomNode(h, q, cur)}
  ELSE IF h[cur].next # NULL THEN {Play(h, q, h[cur].next)}
  ELSE IF rm = "all" THEN {Play(h, q, q.head)}
  ELSE {Play(h, q, NULL)}

\* Faulty prevSong: wraps to the tail when there is no predecessor.
\* C9 tells it from prevSong.
prevSong_wraps(h, q, cur, sh) ==
  IF cur = NULL THEN {Quiet(h, q, cur)}
  ELSE IF sh THEN {Play(h, q, r) : r \in getRandomNode(h, q, cur)}
  ELSE IF h[cur].prev # NULL THEN {Play(h, q, h[cur].prev)}
  ELSE {Play(h, q, q.tail)}

\* prevSong()
prevSong(h, q, cur, sh) ==
  IF cur = NULL THEN {Quiet(h, q, cur)}
  ELSE IF sh THEN {Play(h, q, r) : r \in getRandomNode(h, q, cur)}
  ELSE IF h[cur].prev # NULL THEN {Play(h, q, h[cur].prev)}
  ELSE {Quiet(h, q, cur)}

\* Faulty playSongNow: the isEmpty test is missing.  C4 tells it from
\* playSongNow.
playSongNow_unguarded(h, q, cur, song) ==
  IF FreeSlots(h) = {} THEN {}
  ELSE LET a == addLast(h, q, song, Fresh(h))
       IN {Publish(a.nodes, a.list, NewList, TRUE, a.node)}

\* playSongNow(song): the node is appended to the list object of the
\* closure, and the state is set to `new DoublyLinkedList()'.
playSongNow(h, q, cur, song) ==
  IF isEmpty(q)
    THEN IF FreeSlots(h) = {} THEN {}
         ELSE LET a == addLast(h, q, song, Fresh(h))
              IN {Publish(a.nodes, a.list, NewList, TRUE, a.node)}
    ELSE {Quiet(h, q, cur)}

\* Faulty addToQueue: the new node is played whatever the size is.
\* C5 tells it from addToQueue.
addToQueue_alwaysPlays(h, q, cur, song) ==
  IF findNodeBySongId(h, q, song) # NULL THEN {Quiet(h, q, cur)}
  ELSE IF FreeSlots(h) = {} THEN {}
  ELSE LET a == addLast(h, q, song, Fresh(h))
       IN {Publish(a.nodes, a.list, a.list, TRUE, a.node)}

\* addToQueue(song)
addToQueue(h, q, cur, song) ==
  IF findNodeBySongId(h, q, song) # NULL THEN {Quiet(h, q, cur)}
  ELSE IF FreeSlots(h) = {} THEN {}
  ELSE LET a == addLast(h, q, song, Fresh(h))
       IN {Publish(a.nodes, a.list, a.list, a.list.size = 1,
                   IF a.list.size = 1 THEN a.node ELSE cur)}

\* Faulty removeFromQueue: playNode(nextNodeToPlay) is called whichever
\* node was removed.  C26 tells it from removeFromQueue.
removeFromQueue_alwaysMoves(h, q, cur, sh, songId) ==
  LET nodeToRemove == findNodeBySongId(h, q, songId)
  IN IF nodeToRemove = NULL THEN {Quiet(h, q, cur)}
     ELSE
       LET candidates ==
             IF nodeToRemove = cur
               THEN IF sh THEN getRandomNode(h, q, cur)
                    ELSE {IF h[cur].next # NULL THEN h[cur].next ELSE q.head}
               ELSE {NULL}
           r == removeNode(h, q, nodeToRemove)
       IN {Publish(r.nodes, r.list, r.list, TRUE, nextNodeToPlay)
             : nextNodeToPlay \in candidates}

\* removeFromQueue(songId)
removeFromQueue(h, q, cur, sh, songId) ==
  LET nodeToRemove == findNodeBySongId(h, q, songId)
  IN IF nodeToRemove = NULL THEN {Quiet(h, q, cur)}
     ELSE
       LET candidates ==
             IF nodeToRemove = cur
               THEN IF sh THEN getRandomNode(h, q, cur)
                    ELSE {IF h[cur].next # NULL THEN h[cur].next ELSE q.head}
               ELSE {NULL}
           r == removeNode(h, q, nodeToRemove)
       IN {Publish(r.nodes, r.list, r.list, nodeToRemove = cur,
                   IF nodeToRemove = cur THEN nextNodeToPlay ELSE cur)
             : nextNodeToPlay \in candidates}

\* Faulty reorderQueue: an unresolved target id is not rejected and counts
\* as the drop-at-end target.  C14 tells it from reorderQueue.
reorderQueue_anyTarget(h, q, cur, draggedSongId, targetSongId) ==
  LET draggedNode == findNodeBySongId(h, q, draggedSongId)
      targetNode == IF targetSongId # NoSong
                      THEN findNodeBySongId(h, q, targetSongId) ELSE NULL
  IN IF draggedNode = NULL THEN {Quiet(h, q, cur)}
     ELSE IF draggedNode = targetNode THEN {Quiet(h, q, cur)}
     ELSE LET r == reorder(h, q, draggedNode, targetNode)
          IN IF r.threw
               THEN {[Quiet(r.nodes, r.list, cur) EXCEPT !.threw = TRUE]}
               ELSE {Publish(r.nodes, r.list, r.list, FALSE, cur)}

\* reorderQueue(draggedSongId, targetSongId); NoSong is a null target id.
\* When reorder throws, setPlayQueue is not reached and the state keeps the
\* list object as the throw left it.
reorderQueue(h, q, cur, draggedSongId, targetSongId) ==
  LET draggedNode == findNodeBySongId(h, q, draggedSongId)
      targetNode == IF targetSongId # NoSong
                      THEN findNodeBySongId(h, q, targetSongId) ELSE NULL
  IN IF draggedNode = NULL THEN {Quiet(h, q, cur)}
     ELSE IF targetSongId # NoSong /\ targetNode = NULL
       THEN {Quiet(h, q, cur)}
     ELSE IF draggedNode = targetNode THEN {Quiet(h, q, cur)}
     ELSE LET r == reorder(h, q, draggedNode, targetNode)
          IN IF r.threw
               THEN {[Quiet(r.nodes, r.list, cur) EXCEPT !.threw = TRUE]}
               ELSE {Publish(r.nodes, r.list, r.list, FALSE, cur)}

\* Faulty clearQueue: playNode(null) is missing.  C17 tells it from
\* clearQueue.
clearQueue_keepsCurrent(h, q, cur) == {Publish(h, q, NewList, FALSE, cur)}

\* clearQueue()
clearQueue(h, q, cur) == {Publish(h, q, NewList, TRUE, NULL)}

\* songs.forEach(song => newQueue.addLast(song)), from index i on.
RECURSIVE addAll(_, _, _, _)
addAll(h, q, songs, i) ==
  IF i > Len(songs) THEN [nodes |-> h, list |-> q]
  ELSE LET a == addLast(h, q, songs[i], Fresh(h))
       IN addAll(a.nodes, a.list, songs, i + 1)

\* Faulty loadQueue: the songs are appended to the list of the closure
\* instead of a new list.  C16 tells it from loadQueue.
loadQueue_appends(h, q, songs) ==
  IF Cardinality(FreeSlots(h)) < Len(songs) THEN {}
  ELSE LET a == addAll(h, q, songs, 1)
       IN {Publish(a.nodes, a.list, a.list, TRUE, a.list.head)}

\* loadQueue(songs)
loadQueue(h, q, songs) ==
  IF Cardinality(FreeSlots(h)) < Len(songs) THEN {}
  ELSE LET a == addAll(h, NewList, songs, 1)
       IN {Publish(a.nodes, q, a.list, TRUE, a.list.head)}

\* toggleShuffle(): prev => !prev
toggleShuffle(sh) == ~sh

\* Faulty cycleRepeatMode: 'none' is never entered.  C23 tells it from
\* cycleRepeatMode.
cycleRepeatMode_twoModes(rm) ==
  IF rm = "all" THEN "one" ELSE "all"

\* cycleRepeatMode()
cycleRepeatMode(rm) ==
  IF rm = "all" THEN "one" ELSE IF rm = "one" THEN "none" ELSE "all"

\* ---------------------------------------------------------------------
\* Garbage: a node object nothing refers to any more gives its slot back.
\* ---------------------------------------------------------------------
RECURSIVE Reach(_, _, _)
Reach(h, S, fuel) ==
  LET T == S \cup (({h[n].next : n \in S} \cup {h[n].prev : n \in S}) \ {NULL})
  IN IF T = S \/ fuel = 0 THEN S ELSE Reach(h, T, fuel - 1)

Live(h, q, c) == Reach(h, {q.head, q.tail, c} \ {NULL}, MaxNodes)

Collect(h, q, c) ==
  [n \in Nodes |-> IF n \in Live(h, q, c) THEN h[n] ELSE FreeNode]

\* ---------------------------------------------------------------------
\* Node identities carry no information besides equality, so every state
\* is kept in one numbering: the nodes of the queue in head-to-tail order,
\* then the other live nodes, then the nodes only the pre-state kept alive.
\* The pre-state recorded in `last' is renamed by the same bijection, so
\* node identities compare across a step.
\* ---------------------------------------------------------------------
RECURSIVE Ascending(_)
Ascending(S) ==
  IF S = {} THEN <<>>
  ELSE LET m == CHOOSE x \in S : \A y \in S : x <= y
       IN <<m>> \o Ascending(S \ {m})

RECURSIVE AppendNew(_, _)
AppendNew(s, t) ==
  IF t = <<>> THEN s
  ELSE IF \E i \in 1..Len(s) : s[i] = Head(t) THEN AppendNew(s, Tail(t))
  ELSE AppendNew(Append(s, Head(t)), Tail(t))

NodeOrder(pre, h, q, c) ==
  AppendNew(AppendNew(AppendNew(Chain(h, q), Ascending(Live(h, q, c))),
                      Chain(pre.nodes, pre.playQueue)),
            Ascending(Nodes))

Renaming(pre, h, q, c) ==
  LET order == NodeOrder(pre, h, q, c)
  IN [n \in Nodes \cup {NULL} |->
        IF n = NULL THEN NULL ELSE CHOOSE i \in Nodes : order[i] = n]

RenameHeap(h, f) ==
  [m \in Nodes |->
     LET n == CHOOSE x \in Nodes : f[x] = m
     IN [value |-> h[n].value, next |-> f[h[n].next], prev |-> f[h[n].prev]]]

RenameList(q, f) == [head |-> f[q.head], tail |-> f[q.tail], size |-> q.size]

\* ---------------------------------------------------------------------
\* The state machine
\* ---------------------------------------------------------------------
Pre ==
  [nodes |-> nodes, playQueue |-> playQueue, currentNode |-> currentNode,
   isShuffle |-> isShuffle, repeatMode |-> repeatMode]

RenamePre(f) ==
  [nodes |-> RenameHeap(nodes, f), playQueue |-> RenameList(playQueue, f),
   currentNode |-> f[currentNode],
   isShuffle |-> isShuffle, repeatMode |-> repeatMode]

Cmd(c, a, b, ss, t, p) ==
  [cmd |-> c, song |-> a, target |-> b, songs |-> ss, threw |-> t,
   pre |-> p, node |-> NULL]

Init ==
  /\ nodes = [n \in Nodes |-> FreeNode]
  /\ playQueue = NewList
  /\ currentNode = NULL
  /\ isShuffle = FALSE
  /\ repeatMode = "all"
  /\ last = Cmd("none", NoSong, NoSong, <<>>, FALSE, Pre)
  /\ call = NoCall

\* No command has been observed so far.
Unobserved == last.cmd = "none"

\* One handler run to completion, then the re-render.  The command is
\* either recorded in `last' with its pre-state, and the run is looked at
\* no further, or it goes unrecorded; so every command of every reachable
\* state is recorded in some run, and no reachable state is lost.
Run(c, a, b, ss, outcomes) ==
  /\ Unobserved
  /\ \E o \in outcomes :
       \E g \in {Collect(o.nodes, o.playQueue, o.currentNode)} :
         \E f \in {Renaming(Pre, g, o.playQueue, o.currentNode)} :
           /\ nodes' = RenameHeap(g, f)
           /\ playQueue' = RenameList(o.playQueue, f)
           /\ currentNode' = f[o.currentNode]
           /\ UNCHANGED <<isShuffle, repeatMode, call>>
           /\ \E observed \in BOOLEAN :
                last' = IF observed
                          THEN Cmd(c, a, b, ss, o.threw, RenamePre(f))
                          ELSE last

NextSong ==
  Run("nextSong", NoSong, NoSong, <<>>,
      nextSong(nodes, playQueue, currentNode, isShuffle, repeatMode))

PrevSong ==
  Run("prevSong", NoSong, NoSong, <<>>,
      prevSong(nodes, playQueue, currentNode, isShuffle))

PlaySongNow ==
  \E song \in Songs :
    Run("playSongNow", song, NoSong, <<>>,
        playSongNow(nodes, playQueue, currentNode, song))

AddToQueue ==
  \E song \in Songs :
    Run("addToQueue", song, NoSong, <<>>,
        addToQueue(nodes, playQueue, currentNode, song))

RemoveFromQueue ==
  \E songId \in Songs :
    Run("removeFromQueue", songId, NoSong, <<>>,
        removeFromQueue(nodes, playQueue, currentNode, isShuffle, songId))

ReorderQueue ==
  \E draggedSongId \in Songs, targetSongId \in Songs \cup {NoSong} :
    Run("reorderQueue", draggedSongId, targetSongId, <<>>,
        reorderQueue(nodes, playQueue, currentNode,
                     draggedSongId, targetSongId))

ClearQueue ==
  Run("clearQueue", NoSong, NoSong, <<>>,
      clearQueue(nodes, playQueue, currentNode))

SongLists ==
  UNION {[1..k -> Songs] : k \in 0..MaxLoad}

LoadQueue ==
  \E songs \in SongLists :
    Run("loadQueue", NoSong, NoSong, songs,
        loadQueue(nodes, playQueue, songs))

ToggleShuffle ==
  /\ Unobserved
  /\ isShuffle' = toggleShuffle(isShuffle)
  /\ UNCHANGED <<nodes, playQueue, currentNode, repeatMode, call>>
  /\ \E observed \in BOOLEAN :
       last' = IF observed
                 THEN Cmd("toggleShuffle", NoSong, NoSong, <<>>, FALSE, Pre)
                 ELSE last

CycleRepeatMode ==
  /\ Unobserved
  /\ repeatMode' = cycleRepeatMode(repeatMode)
  /\ UNCHANGED <<nodes, playQueue, currentNode, isShuffle, call>>
  /\ \E observed \in BOOLEAN :
       last' = IF observed
                 THEN Cmd("cycleRepeatMode", NoSong, NoSong, <<>>, FALSE, Pre)
                 ELSE last

Next ==
  \/ NextSong
  \/ PrevSong
  \/ PlaySongNow
  \/ AddToQueue
  \/ RemoveFromQueue
  \/ ReorderQueue
  \/ ClearQueue
  \/ LoadQueue
  \/ ToggleShuffle
  \/ CycleRepeatMode

Spec == Init /\ [][Next]_vars

\* Only addToQueue and removeFromQueue are issued (the shuffle switch
\* decides which branch removeFromQueue takes for the current node).
NextQueue ==
  \/ AddToQueue
  \/ RemoveFromQueue
  \/ ToggleShuffle

SpecQueue == Init /\ [][NextQueue]_vars

\* ---------------------------------------------------------------------
\* Two commands issued back to back, before the re-render that follows the
\* first one: both handlers are the callbacks of the same render, so the
\* second one reads the currentNode, isShuffle and repeatMode captured
\* before the first one ran.  The list object of the closure is the one
\* the first handler mutated in place.  Of the values handed to
\* setCurrentNode and to setPlayQueue the last one wins.
\* A command is removeFromQueue(songId), or nextSong() when songId is
\* NoSong.
\* ---------------------------------------------------------------------
Dispatch(songId, h, q, cur, sh, rm) ==
  IF songId = NoSong THEN nextSong(h, q, cur, sh, rm)
  ELSE removeFromQueue(h, q, cur, sh, songId)

\* The state after the two handlers and the re-render.
Raced(o1, o2, q, cur) ==
  [nodes |-> o2.nodes,
   playQueue |-> IF o2.setQueue THEN o2.playQueue
                 ELSE IF o1.setQueue THEN o1.playQueue ELSE q,
   currentNode |-> IF o2.setCurrent THEN o2.currentNode
                   ELSE IF o1.setCurrent THEN o1.currentNode ELSE cur]

Race ==
  /\ Unobserved
  /\ \E first, second \in Songs \cup {NoSong} :
       \E o1 \in Dispatch(first, nodes, playQueue, currentNode,
                          isShuffle, repeatMode) :
         \E o2 \in Dispatch(second, o1.nodes, o1.obj, currentNode,
                            isShuffle, repeatMode) :
           \E o \in {Raced(o1, o2, playQueue, currentNode)} :
             \E g \in {Collect(o.nodes, o.playQueue, o.currentNode)} :
               \E f \in {Renaming(Pre, g, o.playQueue, o.currentNode)} :
                 /\ nodes' = RenameHeap(g, f)
                 /\ playQueue' = RenameList(o.playQueue, f)
                 /\ currentNode' = f[o.currentNode]
                 /\ last' = Cmd("race", first, second, <<>>, FALSE,
                                RenamePre(f))
                 /\ UNCHANGED <<isShuffle, repeatMode, call>>

NextRace ==
  \/ Next
  \/ Race

SpecRace == Init /\ [][NextRace]_vars

\* ---------------------------------------------------------------------
\* removeFromQueue(songId) issued twice in a row with the same id, the
\* second call by the callbacks of the render that follows the first.
\* ---------------------------------------------------------------------
removeFromQueueTwice(h, q, cur, sh, songId) ==
  UNION {removeFromQueue(o1.nodes, o1.playQueue, o1.currentNode, sh, songId)
           : o1 \in removeFromQueue(h, q, cur, sh, songId)}

RemoveFromQueueTwice ==
  \E songId \in Songs :
    Run("removeFromQueueTwice", songId, NoSong, <<>>,
        removeFromQueueTwice(nodes, playQueue, currentNode, isShuffle,
                             songId))

NextTwice ==
  \/ Next
  \/ RemoveFromQueueTwice

SpecTwice == Init /\ [][NextTwice]_vars

\* ---------------------------------------------------------------------
\* removeNode called on the list directly.  Two lists are built with
\* addLast, this queue and another one; removeNode is called on this queue
\* with any node that exists: an element of the queue, an element an
\* earlier call removed, or an element of the other list.  No node is
\* collected, so node identities are kept as they are.
\* ---------------------------------------------------------------------
\* The lists of tracks a list of up to MaxNodes nodes can hold.
QueueLists ==
  UNION {[1..k -> Songs] : k \in 0..MaxNodes}

Existing == {n \in Nodes : nodes[n].value # NoSong}

InitHandle ==
  \E songs \in QueueLists, others \in QueueLists :
    /\ Len(songs) + Len(others) <= MaxNodes
    /\ LET a == addAll([n \in Nodes |-> FreeNode], NewList, songs, 1)
           b == addAll(a.nodes, NewList, others, 1)
       IN /\ nodes = b.nodes
          /\ playQueue = a.list
          /\ currentNode = NULL
          /\ isShuffle = FALSE
          /\ repeatMode = "all"
          /\ last = Cmd("none", NoSong, NoSong, <<>>, FALSE, Pre)
          /\ call = NoCall

\* this.removeNode(nodeToRemove); the calls stop once size is negative.
RemoveNode ==
  /\ Unobserved
  /\ playQueue.size >= 0
  /\ \E nodeToRemove \in Existing :
       \E r \in {removeNode(nodes, playQueue, nodeToRemove)} :
         /\ nodes' = r.nodes
         /\ playQueue' = r.list
         /\ \E observed \in BOOLEAN :
              last' = IF observed
                        THEN [Cmd("removeNode", NoSong, NoSong, <<>>, FALSE,
                                  Pre)
                                EXCEPT !.node = nodeToRemove]
                        ELSE last
         /\ UNCHANGED <<currentNode, isShuffle, repeatMode, call>>

SpecHandle == InitHandle /\ [][RemoveNode]_vars

\* ---------------------------------------------------------------------
\* getRandomNode on its own: any queue loadQueue can build, any node or
\* null as excludeNode, any value of Math.random() at each pass.
\* ---------------------------------------------------------------------
InitRandom ==
  \E songs \in QueueLists, excludeNode \in Nodes \cup {NULL} :
    LET a == addAll([n \in Nodes |-> FreeNode], NewList, songs, 1)
    IN /\ nodes = a.nodes
       /\ playQueue = a.list
       /\ currentNode = NULL
       /\ isShuffle = FALSE
       /\ repeatMode = "all"
       /\ last = Cmd("none", NoSong, NoSong, <<>>, FALSE, Pre)
       /\ call = [pc |-> "call", excludeNode |-> excludeNode,
                  randomNode |-> NULL, tick |-> 0]

\* Lines 168-172.
RandomEnter ==
  /\ call.pc = "call"
  /\ call' = [call EXCEPT
                !.pc = IF returnsNull(playQueue, call.excludeNode)
                         THEN "done" ELSE "loop"]
  /\ UNCHANGED <<nodes, playQueue, currentNode, isShuffle, repeatMode, last>>

\* One pass of the do-while, lines 174-180.
RandomDraw ==
  /\ call.pc = "loop"
  /\ \E randomIndex \in RandomIndexes(playQueue) :
       LET randomNode == NodeAt(nodes, playQueue.head, randomIndex)
       IN call' = [call EXCEPT
                     !.randomNode = randomNode,
                     !.tick = 1 - @,
                     !.pc = IF repeats(randomNode, call.excludeNode)
                              THEN "loop" ELSE "done"]
  /\ UNCHANGED <<nodes, playQueue, currentNode, isShuffle, repeatMode, last>>

NextRandom ==
  \/ RandomEnter
  \/ RandomDraw

\* The call keeps running: a pass that can be made is made.
SpecRandom ==
  /\ InitRandom
  /\ [][NextRandom]_vars
  /\ WF_vars(RandomEnter)
  /\ WF_vars(RandomDraw)

\* ---------------------------------------------------------------------
\* Well-formedness of the model itself (Spec, SpecQueue, SpecRace and
\* SpecRandom; under SpecHandle removeNode takes size below zero)
\* ---------------------------------------------------------------------
TypeOK ==
  /\ nodes \in [Nodes -> [value : Songs \cup {NoSong},
                          next : Nodes \cup {NULL},
                          prev : Nodes \cup {NULL}]]
  /\ playQueue.head \in Nodes \cup {NULL}
  /\ playQueue.tail \in Nodes \cup {NULL}
  /\ playQueue.size \in 0..MaxNodes
  /\ currentNode \in Nodes \cup {NULL}
  /\ isShuffle \in BOOLEAN
  /\ repeatMode \in RepeatModes
  /\ call \in [pc : {"idle", "call", "loop", "done"},
               excludeNode : Nodes \cup {NULL},
               randomNode : Nodes \cup {NULL},
               tick : 0..1]

\* The walk from head ends at null within MaxNodes steps, so the cut of
\* findFrom and WalkFrom is never taken; and no reference dangles.
Acyclic ==
  /\ NodeAt(nodes, playQueue.head, MaxNodes) = NULL
  /\ \A n \in Nodes : nodes[n].value # NoSong =>
       /\ nodes[n].next # NULL => nodes[nodes[n].next].value # NoSong
       /\ nodes[n].prev # NULL => nodes[nodes[n].prev].value # NoSong
  /\ \A r \in {playQueue.head, playQueue.tail, currentNode} \ {NULL} :
       nodes[r].value # NoSong

\* ---------------------------------------------------------------------
\* Vocabulary of the properties
\* ---------------------------------------------------------------------
Range(s) == {s[i] : i \in 1..Len(s)}

\* The elements reachable from the head of the queue.
InQueue(h, q) == Range(Chain(h, q))

PreNodes == last.pre.nodes
PreQueue == last.pre.playQueue
PreCurrent == last.pre.currentNode
PreChain == Chain(PreNodes, PreQueue)
PreArray == toArray(PreNodes, PreQueue)
NowChain == Chain(nodes, playQueue)
NowArray == toArray(nodes, playQueue)

\* The command left the whole controller state as it was.
StateUnchanged ==
  /\ nodes = PreNodes
  /\ playQueue = PreQueue
  /\ currentNode = PreCurrent
  /\ isShuffle = last.pre.isShuffle
  /\ repeatMode = last.pre.repeatMode

\* The command left the queue (elements, order, links, size) as it was.
QueueUnchanged ==
  /\ playQueue = PreQueue
  /\ NowChain = PreChain
  /\ NowArray = PreArray
  /\ \A n \in InQueue(nodes, playQueue) : nodes[n] = PreNodes[n]

\* The four structural invariants of a queue.
HeadTailOK(h, q) ==
  /\ (q.head = NULL) <=> (q.size = 0)
  /\ (q.tail = NULL) <=> (q.size = 0)
  /\ q.head # NULL => h[q.head].prev = NULL
  /\ q.tail # NULL => h[q.tail].next = NULL
  /\ \A n \in InQueue(h, q) :
       /\ h[n].prev = NULL => n = q.head
       /\ h[n].next = NULL => n = q.tail

SizeOK(h, q) ==
  /\ q.size = Len(Chain(h, q))
  /\ NodeAt(h, q.head, q.size) = NULL

LinksOK(h, q) ==
  \A n \in InQueue(h, q) :
    /\ h[n].next # NULL => h[h[n].next].prev = n
    /\ h[n].prev # NULL => h[h[n].prev].next = n

NoDuplicateIds(h, q) ==
  \A i, j \in 1..Len(Chain(h, q)) :
    h[Chain(h, q)[i]].value = h[Chain(h, q)[j]].value => i = j

\* ---------------------------------------------------------------------
\* Properties
\* ---------------------------------------------------------------------

\* C1: after any sequence of commands the cursor is null or an element
\* reachable from the head of the controller's queue.
C1_CursorInQueue ==
  currentNode = NULL \/ currentNode \in InQueue(nodes, playQueue)

\* C2: after every addToQueue / removeFromQueue the queue satisfies the four
\* structural invariants (head/tail, size = walk length, mutual links, no
\* duplicate song id).  Checked under SpecQueue.
C2_QueueInvariants ==
  /\ HeadTailOK(nodes, playQueue)
  /\ SizeOK(nodes, playQueue)
  /\ LinksOK(nodes, playQueue)
  /\ NoDuplicateIds(nodes, playQueue)

\* A removal from the middle or an end of a queue of three has happened.
C2_Witness ==
  /\ last.cmd = "removeFromQueue"
  /\ PreQueue.size = 3
  /\ playQueue.size = 2

\* C3: playSongNow(song) on an empty queue leaves the queue snapshot equal
\* to [song], the queue non-empty and the cursor on the element of song.
C3_PlayNowAppends ==
  (last.cmd = "playSongNow" /\ isEmpty(PreQueue)) =>
    /\ NowArray = <<last.song>>
    /\ ~isEmpty(playQueue)
    /\ currentNode # NULL
    /\ currentNode = playQueue.head
    /\ nodes[currentNode].value = last.song

\* C4: playSongNow on a non-empty queue changes nothing: queue, cursor,
\* shuffle flag and repeat mode are as before.
C4_PlayNowNoOp ==
  (last.cmd = "playSongNow" /\ ~isEmpty(PreQueue)) => StateUnchanged

C4_Witness ==
  /\ last.cmd = "playSongNow"
  /\ PreQueue.size = 2
  /\ last.song \notin Range(PreArray)
  /\ PreCurrent # NULL

\* C5: addToQueue(song) changes nothing when the song id is in the queue;
\* otherwise the song is the new tail, size grows by one, and the cursor
\* moves to the new element iff the queue was empty (else it stays).
C5_Enqueue ==
  last.cmd = "addToQueue" =>
    IF last.song \in Range(PreArray)
      THEN StateUnchanged
      ELSE /\ NowArray = Append(PreArray, last.song)
           /\ NowChain = Append(PreChain, playQueue.tail)
           /\ playQueue.size = PreQueue.size + 1
           /\ nodes[playQueue.tail].value = last.song
           /\ (currentNode = playQueue.tail) <=> isEmpty(PreQueue)
           /\ ~isEmpty(PreQueue) => currentNode = PreCurrent
           /\ isShuffle = last.pre.isShuffle
           /\ repeatMode = last.pre.repeatMode

\* A song was appended behind two others while a song was current.
C5_Witness ==
  /\ last.cmd = "addToQueue"
  /\ PreQueue.size = 2
  /\ playQueue.size = 3
  /\ PreCurrent # NULL
  /\ currentNode = PreCurrent

\* The element removeFromQueue(last.song) resolved in the pre-state.
Removed == findNodeBySongId(PreNodes, PreQueue, last.song)

RemovedCurrent ==
  /\ last.cmd = "removeFromQueue"
  /\ Removed # NULL
  /\ Removed = PreCurrent

\* C6: removing the current element with shuffle off moves the cursor to its
\* successor, or, if it was the tail, to the head the queue has after the
\* removal, whatever repeatMode is.
C6_DequeueCurrent ==
  (RemovedCurrent /\ ~last.pre.isShuffle) =>
    IF PreNodes[PreCurrent].next # NULL
      THEN currentNode = PreNodes[PreCurrent].next
      ELSE currentNode = playQueue.head

\* C7: removing the current element when it is the only element leaves the
\* queue empty and the cursor null, with shuffle off and with shuffle on.
C7_DequeueOnly ==
  (RemovedCurrent /\ PreQueue.size = 1) =>
    /\ isEmpty(playQueue)
    /\ NowArray = <<>>
    /\ currentNode = NULL

\* C8: nextSong with shuffle off: nothing changes when the cursor is null;
\* the cursor moves to its successor when it has one; at the tail it moves
\* to the head under repeat 'all' and becomes null under 'none' or 'one'.
\* The queue is never changed.
C8_Advance ==
  (last.cmd = "nextSong" /\ ~last.pre.isShuffle) =>
    /\ QueueUnchanged
    /\ PreCurrent = NULL => currentNode = NULL
    /\ (PreCurrent # NULL /\ PreNodes[PreCurrent].next # NULL) =>
         currentNode = PreNodes[PreCurrent].next
    /\ (PreCurrent # NULL /\ PreCurrent = PreQueue.tail) =>
         currentNode = IF last.pre.repeatMode = "all"
                         THEN PreQueue.head ELSE NULL

\* nextSong at the tail of a queue of three under repeat 'none'.
C8_Witness ==
  /\ last.cmd = "nextSong"
  /\ ~last.pre.isShuffle
  /\ PreQueue.size = 3
  /\ PreCurrent = PreQueue.tail
  /\ last.pre.repeatMode = "none"
  /\ currentNode = NULL

\* C9: prevSong with shuffle off: nothing changes when the cursor is null or
\* is the head, i.e. has no predecessor (no wrap, whatever repeatMode is);
\* otherwise the cursor moves to its predecessor.
C9_Retreat ==
  (last.cmd = "prevSong" /\ ~last.pre.isShuffle) =>
    /\ QueueUnchanged
    /\ IF \/ PreCurrent = NULL
          \/ PreCurrent = PreQueue.head
          \/ PreNodes[PreCurrent].prev = NULL
         THEN currentNode = PreCurrent
         ELSE currentNode = PreNodes[PreCurrent].prev

\* prevSong at the head of a queue of two or more.
C9_Witness ==
  /\ last.cmd = "prevSong"
  /\ ~last.pre.isShuffle
  /\ PreQueue.size >= 2
  /\ PreCurrent = PreQueue.head
  /\ currentNode = PreCurrent

\* C10: with shuffle on, a non-null cursor and at least two elements,
\* nextSong and prevSong move the cursor to an element of the queue other
\* than the previous one, never to null; on [A,B] with the cursor on A
\* nextSong yields B.
C10_ShuffleMoves ==
  ( /\ last.cmd \in {"nextSong", "prevSong"}
    /\ last.pre.isShuffle
    /\ PreCurrent # NULL
    /\ PreQueue.size >= 2 ) =>
    /\ QueueUnchanged
    /\ currentNode # NULL
    /\ currentNode \in InQueue(nodes, playQueue)
    /\ currentNode # PreCurrent
    /\ (last.cmd = "nextSong" /\ PreQueue.size = 2
          /\ PreCurrent = PreQueue.head) => currentNode = PreQueue.tail

\* Shuffled nextSong on a queue of two with the cursor on the head.
C10_Witness ==
  /\ last.cmd = "nextSong"
  /\ last.pre.isShuffle
  /\ PreQueue.size = 2
  /\ PreCurrent = PreQueue.head
  /\ currentNode = playQueue.tail

\* The elements reorderQueue(last.song, last.target) resolved.
Dragged == findNodeBySongId(PreNodes, PreQueue, last.song)

Target ==
  IF last.target # NoSong
    THEN findNodeBySongId(PreNodes, PreQueue, last.target) ELSE NULL

\* Sequence s without the element n.
Without(s, n) == SelectSeq(s, LAMBDA x : x # n)

\* The songs of the queue, as a bag: song -> number of elements holding it.
SongCount(arr) ==
  [song \in Songs |-> Cardinality({i \in 1..Len(arr) : arr[i] = song})]

\* C12: for two distinct tracks a and b of the queue, after reorder(a, b) the
\* snapshot has a immediately before b, the size is unchanged and the
\* relative order of the other tracks is unchanged.
C12_ReorderBefore ==
  ( /\ last.cmd = "reorderQueue"
    /\ Dragged # NULL
    /\ Target # NULL
    /\ last.song # last.target ) =>
    /\ ~last.threw
    /\ playQueue.size = PreQueue.size
    /\ Len(NowArray) = Len(PreArray)
    /\ \E i \in 1..(Len(NowChain) - 1) :
         /\ NowChain[i] = Dragged /\ NowChain[i + 1] = Target
         /\ NowArray[i] = last.song /\ NowArray[i + 1] = last.target
    /\ Without(NowChain, Dragged) = Without(PreChain, Dragged)
    /\ \A n \in InQueue(nodes, playQueue) : nodes[n].value = PreNodes[n].value

\* The last of three tracks was dropped on the first.
C12_Witness ==
  /\ last.cmd = "reorderQueue"
  /\ PreQueue.size = 3
  /\ Dragged = PreQueue.tail
  /\ Target = PreQueue.head
  /\ playQueue.head = Dragged

\* C13: for a track a of a queue of any size, one included, reorder(a, none)
\* leaves a last in the snapshot, with size and set of tracks unchanged.
C13_ReorderToEnd ==
  ( /\ last.cmd = "reorderQueue"
    /\ Dragged # NULL
    /\ last.target = NoSong ) =>
    /\ playQueue.size = PreQueue.size
    /\ Len(NowArray) = Len(PreArray)
    /\ NowArray # <<>>
    /\ NowArray[Len(NowArray)] = last.song
    /\ playQueue.tail = Dragged
    /\ SongCount(NowArray) = SongCount(PreArray)

\* C14: reorder changes nothing when the dragged id is not in the queue,
\* when a target id is given and is not in the queue, and when dragged and
\* target are the same element.
C14_ReorderNoOp ==
  ( /\ last.cmd = "reorderQueue"
    /\ \/ Dragged = NULL
       \/ (last.target # NoSong /\ Target = NULL)
       \/ (Target # NULL /\ Dragged = Target) ) =>
    /\ StateUnchanged
    /\ ~last.threw

\* A track of a queue of two was dropped on an id the queue does not hold.
C14_Witness ==
  /\ last.cmd = "reorderQueue"
  /\ PreQueue.size = 2
  /\ Dragged # NULL
  /\ last.target # NoSong
  /\ Target = NULL

\* C15: every command completes without raising an error, for every input
\* and in every reachable state, and leaves no half-updated queue.
C15_Total ==
  /\ ~last.threw
  /\ last.cmd # "none" =>
       /\ HeadTailOK(nodes, playQueue)
       /\ SizeOK(nodes, playQueue)
       /\ LinksOK(nodes, playQueue)
       /\ last.cmd \in {"reorderQueue", "nextSong", "prevSong",
                        "toggleShuffle", "cycleRepeatMode"} =>
            SongCount(NowArray) = SongCount(PreArray)

\* The node objects alive in the pre-state.
PreLive == {n \in Nodes : PreNodes[n].value # NoSong}

\* C16: loadQueue(songs) replaces the queue by a new one whose snapshot is
\* exactly songs, in order, whatever the queue held; the cursor is the new
\* head, or null for an empty array; shuffle and repeatMode are unchanged.
C16_Load ==
  last.cmd = "loadQueue" =>
    /\ NowArray = last.songs
    /\ playQueue.size = Len(last.songs)
    /\ InQueue(nodes, playQueue) \cap PreLive = {}
    /\ currentNode = playQueue.head
    /\ last.songs = <<>> => (currentNode = NULL /\ playQueue = NewList)
    /\ last.songs # <<>> => nodes[currentNode].value = last.songs[1]
    /\ HeadTailOK(nodes, playQueue)
    /\ LinksOK(nodes, playQueue)
    /\ isShuffle = last.pre.isShuffle
    /\ repeatMode = last.pre.repeatMode

\* Two songs were loaded over a queue that held another song.
C16_Witness ==
  /\ last.cmd = "loadQueue"
  /\ Len(last.songs) = 2
  /\ last.songs[1] # last.songs[2]
  /\ PreQueue.size = 1
  /\ PreArray[1] \notin Range(last.songs)

\* C17: clearQueue leaves an empty queue and a null cursor; shuffle and
\* repeatMode are unchanged.
C17_Clear ==
  last.cmd = "clearQueue" =>
    /\ playQueue = NewList
    /\ isEmpty(playQueue)
    /\ NowArray = <<>>
    /\ currentNode = NULL
    /\ isShuffle = last.pre.isShuffle
    /\ repeatMode = last.pre.repeatMode

\* A queue of three with a current song was cleared.
C17_Witness ==
  /\ last.cmd = "clearQueue"
  /\ PreQueue.size = 3
  /\ PreCurrent # NULL
  /\ isEmpty(playQueue)

\* The queue holds an element other than the excluded one.
HasOther == InQueue(nodes, playQueue) \ {call.excludeNode} # {}

Returned == call.pc = "done"

\* C11: on a well-formed queue getRandomNode(h) never returns h, returns an
\* element of the queue when it returns one, and returns null only when the
\* queue is empty or its only element is h.
C11_RandomExcluding ==
  Returned =>
    /\ call.excludeNode # NULL => call.randomNode # call.excludeNode
    /\ call.randomNode # NULL =>
         /\ call.randomNode \in InQueue(nodes, playQueue)
         /\ call.randomNode # call.excludeNode
    /\ call.randomNode = NULL =>
         \/ isEmpty(playQueue) /\ InQueue(nodes, playQueue) = {}
         \/ /\ playQueue.size = 1
            /\ InQueue(nodes, playQueue) = {call.excludeNode}
    /\ call.randomNode \in
         getRandomNode(nodes, playQueue, call.excludeNode)

\* The call returned an element of a queue of three that holds the
\* excluded node, after more than one pass.
C11_Witness ==
  /\ Returned
  /\ playQueue.size = 3
  /\ call.excludeNode \in InQueue(nodes, playQueue)
  /\ call.randomNode # NULL
  /\ call.tick = 0

\* C20: getRandomNode returns for every sequence of values of the random
\* source, whenever the queue holds an element other than the excluded one.
C20_Terminates == HasOther ~> Returned

\* The node handed to the observed removeNode call.
Handle == last.node

\* The elements of the queue are linked as they were before the call.
LinksUnchanged ==
  \A n \in InQueue(PreNodes, PreQueue) : nodes[n] = PreNodes[n]

\* C19: removeNode given a node that is not an element of this queue leaves
\* head, tail, size and all links of the queue unchanged.
C19_ForeignHandle ==
  (last.cmd = "removeNode" /\ Handle \notin InQueue(PreNodes, PreQueue)) =>
    /\ playQueue = PreQueue
    /\ LinksUnchanged

\* The outcomes of the two observed commands run one after the other, the
\* second one by the callbacks of the render that follows the first.
Serial ==
  UNION {Dispatch(last.target, o1.nodes, o1.playQueue, o1.currentNode,
                  last.pre.isShuffle, last.pre.repeatMode)
           : o1 \in Dispatch(last.song, PreNodes, PreQueue, PreCurrent,
                             last.pre.isShuffle, last.pre.repeatMode)}

\* C18: two commands issued back to back, the second one with the values
\* captured before the first, leave the queue and the cursor as the two
\* commands run one after the other do, and the cursor is not left on a
\* removed element.
C18_RaceIsSerial ==
  last.cmd = "race" =>
    /\ \E s \in Serial :
         /\ playQueue = s.playQueue
         /\ currentNode = s.currentNode
         /\ NowChain = Chain(s.nodes, s.playQueue)
    /\ currentNode # NULL => currentNode \in InQueue(nodes, playQueue)

\* C21: after any sequence of commands, loadQueue with any list of songs
\* included, no two elements of the queue hold the same track id.
C21_UniqueIds == NoDuplicateIds(nodes, playQueue)

\* The command left the list, its nodes and the cursor as they were.
StructureUnchanged ==
  /\ nodes = PreNodes
  /\ playQueue = PreQueue
  /\ currentNode = PreCurrent

\* C23: toggleShuffle and cycleRepeatMode change their own flag only;
\* cycleRepeatMode steps 'none' to 'all', 'all' to 'one', 'one' to 'none',
\* so two more applications give the starting mode back; one more
\* toggleShuffle gives the starting flag back.
C23_Toggles ==
  /\ last.cmd = "toggleShuffle" =>
       /\ StructureUnchanged
       /\ repeatMode = last.pre.repeatMode
       /\ isShuffle = ~last.pre.isShuffle
       /\ toggleShuffle(isShuffle) = last.pre.isShuffle
  /\ last.cmd = "cycleRepeatMode" =>
       /\ StructureUnchanged
       /\ isShuffle = last.pre.isShuffle
       /\ last.pre.repeatMode = "none" => repeatMode = "all"
       /\ last.pre.repeatMode = "all" => repeatMode = "one"
       /\ last.pre.repeatMode = "one" => repeatMode = "none"
       /\ cycleRepeatMode(cycleRepeatMode(repeatMode)) = last.pre.repeatMode

\* cycleRepeatMode from 'one' with a queue of two and a cursor.
C23_Witness ==
  /\ last.cmd = "cycleRepeatMode"
  /\ last.pre.repeatMode = "one"
  /\ repeatMode = "none"
  /\ playQueue.size = 2
  /\ currentNode # NULL

\* The queue held one element before the command and the cursor was on it.
PreOnlyCurrent ==
  /\ PreQueue.size = 1
  /\ PreCurrent # NULL
  /\ PreCurrent = PreQueue.head

\* C24: with shuffle on and a queue whose only element is the cursor,
\* nextSong and prevSong set the cursor to null whatever repeatMode is and
\* leave the queue unchanged.
C24_ShuffleSingle ==
  (/\ last.cmd \in {"nextSong", "prevSong"}
   /\ last.pre.isShuffle
   /\ PreOnlyCurrent) =>
    /\ currentNode = NULL
    /\ QueueUnchanged
    /\ isShuffle = last.pre.isShuffle
    /\ repeatMode = last.pre.repeatMode

\* nextSong under repeat 'all' with shuffle on, on a queue of one.
C24_Witness ==
  /\ last.cmd = "nextSong"
  /\ last.pre.isShuffle
  /\ last.pre.repeatMode = "all"
  /\ PreOnlyCurrent
  /\ currentNode = NULL
  /\ playQueue.size = 1

\* The outcomes of a single removeFromQueue of the observed id.
Once ==
  removeFromQueue(PreNodes, PreQueue, PreCurrent, last.pre.isShuffle,
                  last.song)

\* C22: removeFromQueue with an id that is not in the queue leaves the
\* whole state unchanged, and removeFromQueue(id); removeFromQueue(id) ends
\* in a state a single removeFromQueue(id) ends in.
C22_DequeueIdempotent ==
  /\ (last.cmd = "removeFromQueue" /\ Removed = NULL) => StateUnchanged
  /\ last.cmd = "removeFromQueueTwice" =>
       /\ \E s \in Once :
            /\ playQueue = s.playQueue
            /\ currentNode = s.currentNode
            /\ NowChain = Chain(s.nodes, s.playQueue)
            /\ NowArray = toArray(s.nodes, s.playQueue)
       /\ isShuffle = last.pre.isShuffle
       /\ repeatMode = last.pre.repeatMode

\* C25: reorderQueue of an element of the queue onto an element of the
\* queue or onto the end leaves the cursor on the same element, still in the
\* queue if it was, and the queue with the same tracks and the same size.
C25_ReorderKeeps ==
  ( /\ last.cmd = "reorderQueue"
    /\ Dragged # NULL
    /\ last.target = NoSong \/ Target # NULL ) =>
    /\ currentNode = PreCurrent
    /\ PreCurrent \in InQueue(PreNodes, PreQueue) =>
         currentNode \in InQueue(nodes, playQueue)
    /\ playQueue.size = PreQueue.size
    /\ Len(NowArray) = Len(PreArray)
    /\ SongCount(NowArray) = SongCount(PreArray)
    /\ InQueue(nodes, playQueue) = InQueue(PreNodes, PreQueue)

\* C26: removeFromQueue of an element of the queue that is not the cursor
\* leaves the cursor unchanged, takes one off the size, removes that element
\* from the snapshot and keeps the order of the others.
C26_DequeueOther ==
  ( /\ last.cmd = "removeFromQueue"
    /\ Removed # NULL
    /\ Removed # PreCurrent ) =>
    /\ currentNode = PreCurrent
    /\ playQueue.size = PreQueue.size - 1
    /\ Len(NowArray) = Len(PreArray) - 1
    /\ NowChain = Without(PreChain, Removed)
    /\ \A n \in InQueue(nodes, playQueue) : nodes[n].value = PreNodes[n].value
    /\ isShuffle = last.pre.isShuffle
    /\ repeatMode = last.pre.repeatMode

\* The middle one of three tracks was removed while the head was playing.
C26_Witness ==
  /\ last.cmd = "removeFromQueue"
  /\ PreQueue.size = 3
  /\ PreCurrent = PreQueue.head
  /\ Removed = PreNodes[PreQueue.head].next
  /\ playQueue.size = 2
  /\ currentNode = playQueue.head

\* The queue held elements before the command and the cursor was null.
PreStopped ==
  /\ last.cmd # "none"
  /\ PreCurrent = NULL
  /\ PreQueue.size > 0

\* C27: with a null cursor and a non-empty queue, playSongNow, addToQueue,
\* reorderQueue, nextSong, prevSong, toggleShuffle, cycleRepeatMode and
\* removeFromQueue keep the cursor null; the cursor becomes non-null again
\* through loadQueue only.
C27_StaysStopped ==
  PreStopped =>
    /\ last.cmd \in {"playSongNow", "addToQueue", "reorderQueue",
                      "nextSong", "prevSong", "toggleShuffle",
                      "cycleRepeatMode", "removeFromQueue"} =>
         currentNode = NULL
    /\ currentNode # NULL => last.cmd = "loadQueue"

\* nextSong on a queue of two whose cursor is null.
C27_Witness ==
  /\ PreStopped
  /\ last.cmd = "nextSong"
  /\ PreQueue.size = 2
  /\ playQueue.size = 2
  /\ currentNode = NULL

====
